---------------------------- MODULE Spec2Model ----------------------------
(***************************************************************************)
(* The room presence / playback / chat relay of the MovieMeet server       *)
(* (src/unnamed/part_004): the in-memory `rooms` Map, the REST handlers    *)
(* under /api/room/* (the fallback path) and the socket.io handlers        *)
(* registered in io.on('connection') (the push path).                      *)
(*                                                                         *)
(* Every handler runs to completion on the Node event loop, so each        *)
(* handler is one atomic action.  Time is the relay's Date.now() in        *)
(* milliseconds.  JavaScript's `undefined` is the string "undefined" for   *)
(* string-valued fields and the empty tuple for optional numeric / boolean *)
(* request fields (a present value v is <<v>>).                            *)
(*                                                                         *)
(* Beside the relay: the functions of the client's SocketProvider          *)
(* (src/unnamed/part_002), which reach the relay over both transports; a   *)
(* second relay `twin`, driven over the push path in lockstep with the     *)
(* fallback path of the first; and the listeners of the client's           *)
(* VideoPlayer (src/src/components/VideoPlayer.tsx).                       *)
(***************************************************************************)
EXTENDS Integers, Sequences, FiniteSets, TLC

\* ---------------------------------------------------------------- bounds
MaxTicks == 3          \* the clock advances at most this many seconds
MaxRestJoins == 1      \* at most this many accepted POST /api/room/join
MaxMsgs == 2           \* a room's message history holds at most this many entries
MaxUsers == 2          \* a room holds at most this many participant entries
MaxSteps == 8          \* playback positions run from 0 to this many half seconds

Rooms == {"r1", "r2"}
Sockets == {"s1", "s2"}
Names == {"a", "b"}
Texts == {"hi"}
PlayTimes == {42}
ClientSkews == {0 - 3000, 3000}   \* client clock minus relay clock, in ms
UserIdPool == <<"user-1", "user-2", "user-3", "user-4">>

\* ----------------------------------------------------- program constants
DedupWindow == 2000    \* ms, chat_message duplicate window
DriftTolerance == 1000 \* ms, `timeDiff > 1` of the VideoPlayer

Undefined == "undefined"
TruthyAlways(v) == TRUE

\* !v is false: the field is present
Truthy(v) == v # Undefined
None == << >>
Some(v) == <<v>>
Opt(S) == {None} \cup {Some(v) : v \in S}

VARIABLES
  rooms,      \* the `rooms` Map: a function from the ids of existing rooms
  subs,       \* socket.io adapter: subs[s] = rooms socket s is subscribed to
  userRooms,  \* per-connection `userRooms` Set, in insertion order
  conn,       \* per-connection state: "new", "open" or "closed"
  now,        \* Date.now() of the relay, ms
  nextUid,    \* number of user ids generated by POST /api/room/join
  emitted,    \* the emissions of the last handler, in order
  resp,       \* the HTTP response of the last handler (status 0: push path)
  lastOp,     \* the last handler that ran, with its request fields
  client,     \* per client: the state of its SocketProvider (part_002)
  twin,       \* a second registry, driven over the fallback path only
  player      \* the video element and state of a client's VideoPlayer

\* what lies outside the relay
aux == <<client, twin, player>>
relay == <<rooms, subs, userRooms, conn, now, nextUid, emitted, resp, lastOp>>
vars == <<relay, aux>>

\* ------------------------------------------------------- Map / Set helpers
InSeq(x, seq) == \E i \in 1..Len(seq) : seq[i] = x
\* a removal that takes every entry with the username of entry i
RemoveNamesakes(seq, i) == SelectSeq(seq, LAMBDA e : e.username # seq[i].username)
RemoveAt(seq, i) == SubSeq(seq, 1, i - 1) \o SubSeq(seq, i + 1, Len(seq))
SeqAdd(seq, x) == IF InSeq(x, seq) THEN seq ELSE Append(seq, x)
SeqDelete(seq, x) == SelectSeq(seq, LAMBDA y : y # x)

\* room.users.has(id)
UsersHas(users, id) == \E i \in 1..Len(users) : users[i].id = id
\* position of key id in the Map's iteration order, 0 when absent
UsersIndex(users, id) ==
  IF UsersHas(users, id)
  THEN CHOOSE i \in 1..Len(users) : users[i].id = id
  ELSE 0
\* room.users.get(id)
UsersGet(users, id) == users[UsersIndex(users, id)]
UsersDeleteNothing(users, id) == users
\* room.users.delete(id)
UsersDelete(users, id) == SelectSeq(users, LAMBDA e : e.id # id)
\* room.users.set(id, entry): an existing key keeps its position
UsersSet(users, id, entry) ==
  IF UsersHas(users, id)
  THEN [users EXCEPT ![UsersIndex(users, id)] = entry]
  ELSE Append(users, entry)
\* a by-name lookup that falls back to the first entry when no name matches
FirstWithNameElseFirst(users, name) ==
  IF \E i \in 1..Len(users) : users[i].username = name
  THEN CHOOSE i \in 1..Len(users) :
         /\ users[i].username = name
         /\ \A j \in 1..(i - 1) : users[j].username # name
  ELSE IF Len(users) > 0 THEN 1 ELSE 0
\* first entry, in iteration order, whose username is name; 0 when none
FirstWithName(users, name) ==
  IF \E i \in 1..Len(users) : users[i].username = name
  THEN CHOOSE i \in 1..Len(users) :
         /\ users[i].username = name
         /\ \A j \in 1..(i - 1) : users[j].username # name
  ELSE 0
\* the for..of loop of POST /api/room/join: delete every entry named name
EvictAllNamed(users, name) == SelectSeq(users, LAMBDA e : e.username # name)

RoomsHas(rs, r) == r \in DOMAIN rs
RoomsSet(rs, r, room) == [x \in (DOMAIN rs) \cup {r} |-> IF x = r THEN room ELSE rs[x]]
\* a deletion that leaves the registry as it was
RoomsDeleteNothing(rs, r) == rs
\* a deletion that empties the registry
RoomsDeleteAll(rs, r) == << >>
RoomsDelete(rs, r) == [x \in (DOMAIN rs) \ {r} |-> rs[x]]

NewRoomPlaying ==
  [users |-> << >>,
   videoState |-> [currentTime |-> 0, isPlaying |-> TRUE],
   messages |-> << >>]

\* the room literal of rooms.set(roomId, {...})
NewRoom ==
  [users |-> << >>,
   videoState |-> [currentTime |-> 0, isPlaying |-> FALSE],
   messages |-> << >>]

\* ------------------------------------------------------------- socket.io
\* io.to(roomId): every connection subscribed to roomId
IoTo(sb, r) == {s \in Sockets : r \in sb[s]}
SocketToAll(sb, s, r) == IoTo(sb, r)

\* socket.to(roomId): every subscribed connection except the sending one
SocketTo(sb, s, r) == IoTo(sb, r) \ {s}
SocketJoinForgotten(sb, s, r) == sb

\* socket.join(roomId) / socket.leave(roomId)
SocketJoin(sb, s, r) == [sb EXCEPT ![s] = @ \cup {r}]

SocketLeave(sb, s, r) == [sb EXCEPT ![s] = @ \ {r}]

Emit(ev, r, to, payload) == [event |-> ev, room |-> r, to |-> to, payload |-> payload]

\* -------------------------------------------------------------- messages
JoinedText(username) == username \o " joined the room"
LeftText(username) == username \o " left the room"
\* the stored system message of the REST handlers
SystemMessage(text, t) == [id |-> t, user |-> "System", text |-> text, timestamp |-> t]
\* the payload the push handlers emit for user_joined / user_left
PushNotice(username, text, t) == [user |-> username, timestamp |-> t, id |-> t, text |-> text]

\* The server state a handler works on: the registry, the adapter, the
\* connections' userRooms and the emissions made so far by this handler.
Server == [rooms |-> rooms, subs |-> subs, userRooms |-> userRooms, out |-> << >>]

\* ------------------------------------------------------- leaveRoomCleanup
CleanUpKeepsEmptyRoom(rs, r, room, users) == RoomsSet(rs, r, [room EXCEPT !.users = users])

CleanUpDropsRoom(rs, r, room, users) == RoomsDelete(rs, r)

\* "Clean up empty rooms": the room is deleted when its last user is gone
CleanUpEmptyRoom(rs, r, room, users) ==
  IF Len(users) = 0
  THEN RoomsDelete(rs, r)
  ELSE RoomsSet(rs, r, [room EXCEPT !.users = users])

\* a cleanup that does nothing
LeaveRoomCleanupSkipped(st, s, r, username, t) == st
LeaveRoomCleanup(st, s, r, username, t) ==
  IF ~RoomsHas(st.rooms, r) THEN st
  ELSE
    LET room == st.rooms[r]
        byId == UsersHas(room.users, s)
        k == IF ~byId /\ Truthy(username) THEN FirstWithName(room.users, username) ELSE 0
        found == byId \/ k > 0
        user == IF byId THEN UsersGet(room.users, s) ELSE room.users[k]
        users1 == IF k > 0 THEN RemoveAt(room.users, k) ELSE room.users
        users2 == UsersDelete(users1, s)
        left == Emit("user_left", r, IoTo(st.subs, r),
                     PushNotice(user.username, LeftText(user.username), t))
        rooms1 == IF found THEN CleanUpEmptyRoom(st.rooms, r, room, users2) ELSE st.rooms
    IN [rooms |-> rooms1,
        subs |-> SocketLeave(st.subs, s, r),
        userRooms |-> [st.userRooms EXCEPT ![s] = SeqDelete(@, r)],
        out |-> IF found THEN Append(st.out, left) ELSE st.out]

\* ---------------------------------------------------- socket.on('join_room')
JoinRoomHandler(st, s, r, username, t) ==
  LET st1 == IF InSeq(r, st.userRooms[s])
             THEN LeaveRoomCleanup(st, s, r, username, t)
             ELSE st
      subs1 == SocketJoin(st1.subs, s, r)
      userRooms1 == [st1.userRooms EXCEPT ![s] = SeqAdd(@, r)]
      rooms1 == IF RoomsHas(st1.rooms, r) THEN st1.rooms ELSE RoomsSet(st1.rooms, r, NewRoom)
      room == [rooms1[r] EXCEPT !.users = UsersSet(@, s, [id |-> s, username |-> username])]
      joined == Emit("user_joined", r, IoTo(subs1, r),
                     PushNotice(username, JoinedText(username), t))
      snapshot == Emit("room_users", r, {s},
                       [users |-> room.users, videoState |-> room.videoState,
                        messages |-> room.messages])
  IN [rooms |-> RoomsSet(rooms1, r, room),
      subs |-> subs1,
      userRooms |-> userRooms1,
      out |-> st1.out \o <<joined, snapshot>>]

\* ------------------------------------------------- socket.on('disconnect')
RECURSIVE DisconnectUserRooms(_, _, _, _)
\* userRooms.forEach(roomId => ... leaveRoomCleanup(socket, roomId, username))
DisconnectUserRooms(st, s, todo, t) ==
  IF todo = << >> THEN st
  ELSE
    LET r == Head(todo)
        username == IF RoomsHas(st.rooms, r) /\ UsersHas(st.rooms[r].users, s)
                    THEN UsersGet(st.rooms[r].users, s).username
                    ELSE Undefined
    IN DisconnectUserRooms(LeaveRoomCleanup(st, s, r, username, t), s, Tail(todo), t)

RECURSIVE DisconnectLegacy(_, _, _, _)
\* rooms.forEach((room, roomId) => { if (room.users.has(socket.id)) ... })
\* The rooms are visited in a fixed order; the calls act on different rooms.
DisconnectLegacy(st, s, todo, t) ==
  IF todo = {} THEN st
  ELSE
    LET r == CHOOSE x \in todo : TRUE
        st1 == IF RoomsHas(st.rooms, r) /\ UsersHas(st.rooms[r].users, s)
               THEN LeaveRoomCleanup(st, s, r, UsersGet(st.rooms[r].users, s).username, t)
               ELSE st
    IN DisconnectLegacy(st1, s, todo \ {r}, t)

\* socket.io has removed the closing connection from every room of the
\* adapter before the 'disconnect' listeners run.
DisconnectHandler(st, s, t) ==
  LET st0 == [st EXCEPT !.subs[s] = {}]
      st1 == DisconnectUserRooms(st0, s, st0.userRooms[s], t)
  IN DisconnectLegacy(st1, s, DOMAIN st1.rooms, t)

\* ------------------------------------------------------------------ state
NoResp == [status |-> 0]

\* useState(null) / useState('') of the SocketProvider; no action running
\* `pending` is the socket emission a running function still has to make
\* after its fetch; `sent` lists the transports over which the current user
\* action has reached the relay so far
ClientInit ==
  [roomId |-> Undefined, username |-> Undefined, userId |-> Undefined,
   pending |-> None, sent |-> << >>]

\* a relay that has served no request, and the username and userId each
\* client holds from its last join
TwinInit ==
  [st |-> [rooms |-> << >>, subs |-> [s \in Sockets |-> {}],
           userRooms |-> [s \in Sockets |-> << >>], out |-> << >>],
   username |-> [c \in Sockets |-> Undefined],
   userId |-> [c \in Sockets |-> Undefined]]

\* a mounted <video> (position 0 ms, paused) and the component's useState
\* values; `seen` is the last video_state_update handled
PlayerInit ==
  [currentTime |-> 0, paused |-> TRUE, isPlaying |-> FALSE,
   isExternalUpdate |-> FALSE, seen |-> None]

Init ==
  /\ rooms = << >>
  /\ subs = [s \in Sockets |-> {}]
  /\ userRooms = [s \in Sockets |-> << >>]
  /\ conn = [s \in Sockets |-> "new"]
  /\ now = 0
  /\ nextUid = 0
  /\ emitted = << >>
  /\ resp = NoResp
  /\ lastOp = [op |-> "init", via |-> "none"]
  /\ client = [c \in Sockets |-> ClientInit]
  /\ twin = TwinInit
  /\ player = PlayerInit

\* the participants of room r, none when the room does not exist
UsersOf(rs, r) == IF RoomsHas(rs, r) THEN rs[r].users ELSE << >>

\* What a leave remembers of the handler that ran just before it: an
\* accepted join, with the identity it registered.
Previous ==
  IF lastOp.op = "join" /\ lastOp.ok
  THEN [op |-> "join", via |-> lastOp.via, room |-> lastOp.room,
        username |-> lastOp.username,
        userId |-> IF lastOp.via = "push" THEN lastOp.sock ELSE resp.userId]
  ELSE [op |-> "other"]

\* what a push handler leaves behind
Commit(st) ==
  /\ rooms' = st.rooms
  /\ subs' = st.subs
  /\ userRooms' = st.userRooms
  /\ emitted' = st.out

\* every history a handler may append to stays within the bound
CanAppend(r) == RoomsHas(rooms, r) => Len(rooms[r].messages) < MaxMsgs

\* every room a join may add an entry to stays within the bound
CanJoin(r, s) ==
  RoomsHas(rooms, r) => (Len(rooms[r].users) < MaxUsers \/ UsersHas(rooms[r].users, s))
CanRestJoin(r, username) ==
  RoomsHas(rooms, r) => Len(EvictAllNamed(rooms[r].users, username)) < MaxUsers

\* io.on('connection')
Connect(s) ==
  /\ conn[s] = "new"
  /\ conn' = [conn EXCEPT ![s] = "open"]
  /\ emitted' = << >>
  /\ resp' = NoResp
  /\ lastOp' = [op |-> "connect", via |-> "push", sock |-> s]
  /\ UNCHANGED <<rooms, subs, userRooms, now, nextUid>>

\* the relay's clock advances by one second
Tick ==
  /\ now < MaxTicks * 1000
  /\ now' = now + 1000
  /\ UNCHANGED <<rooms, subs, userRooms, conn, nextUid, emitted, resp, lastOp, aux>>

\* socket.on('join_room', ({ roomId, username }) => ...)
JoinRoom(s, r, username) ==
  /\ conn[s] = "open"
  /\ CanJoin(r, s)
  /\ Commit(JoinRoomHandler(Server, s, r, username, now))
  /\ resp' = NoResp
  /\ lastOp' = [op |-> "join", via |-> "push", sock |-> s, room |-> r,
                username |-> username, ok |-> TRUE]
  /\ UNCHANGED <<conn, now, nextUid>>

\* socket.on('leave_room', ({ roomId, username }) => ...)
LeaveRoom(s, r, username) ==
  /\ conn[s] = "open"
  /\ Commit(LeaveRoomCleanup(Server, s, r, username, now))
  /\ resp' = NoResp
  /\ lastOp' = [op |-> "leave", via |-> "push", sock |-> s, room |-> r,
                username |-> username, userId |-> s, ok |-> emitted' # << >>,
                prev |-> Previous]
  /\ UNCHANGED <<conn, now, nextUid>>

\* socket.on('disconnect')
Disconnect(s) ==
  /\ conn[s] = "open"
  /\ conn' = [conn EXCEPT ![s] = "closed"]
  /\ Commit(DisconnectHandler(Server, s, now))
  /\ resp' = NoResp
  /\ lastOp' = [op |-> "disconnect", via |-> "push", sock |-> s]
  /\ UNCHANGED <<now, nextUid>>

VideoStateNeverPlaying(currentTime, isPlaying) ==
  [currentTime |-> currentTime, isPlaying |-> FALSE]

\* room.videoState = { currentTime, isPlaying }
VideoState(currentTime, isPlaying) ==
  [currentTime |-> currentTime, isPlaying |-> isPlaying]

\* socket.on('video_state_update', ({ currentTime, isPlaying, roomId }) => ...)
VideoStateUpdateHandler(st, s, r, currentTime, isPlaying) ==
  IF ~RoomsHas(st.rooms, r) THEN st
  ELSE IF ~UsersHas(st.rooms[r].users, s) THEN st
  ELSE
    LET user == UsersGet(st.rooms[r].users, s)
    IN [st EXCEPT
          !.rooms = RoomsSet(@, r, [@[r] EXCEPT !.videoState =
                                      VideoState(currentTime, isPlaying)]),
          !.out = Append(@, Emit("video_state_update", r, SocketTo(st.subs, s, r),
                                 [currentTime |-> currentTime, isPlaying |-> isPlaying,
                                  userId |-> s, username |-> user.username]))]

VideoStateUpdate(s, r, currentTime, isPlaying) ==
  /\ conn[s] = "open"
  /\ Commit(VideoStateUpdateHandler(Server, s, r, currentTime, isPlaying))
  /\ lastOp' = [op |-> "video", via |-> "push", sock |-> s, room |-> r,
                currentTime |-> Some(currentTime), isPlaying |-> Some(isPlaying),
                ok |-> emitted' # << >>]
  /\ resp' = NoResp
  /\ UNCHANGED <<conn, now, nextUid>>

\* recentDuplicates of socket.on('chat_message')
RecentDuplicates(messages, user, text, t) ==
  SelectSeq(messages, LAMBDA msg :
    /\ msg.user = user
    /\ msg.text = text
    /\ t - msg.timestamp < DedupWindow)

\* socket.on('chat_message', ({ text, roomId, user, timestamp }) => ...)
ChatMessageHandler(st, r, user, text, timestamp, t) ==
  IF ~RoomsHas(st.rooms, r) THEN st
  ELSE IF Len(RecentDuplicates(st.rooms[r].messages, user, text, t)) > 0 THEN st
  ELSE
    LET newMessage == [id |-> t, user |-> user, text |-> text,
                       timestamp |-> IF timestamp # None THEN timestamp[1] ELSE t]
    IN [st EXCEPT
          !.rooms = RoomsSet(@, r, [@[r] EXCEPT !.messages = Append(@, newMessage)]),
          !.out = Append(@, Emit("chat_message", r, IoTo(st.subs, r), newMessage))]

ChatMessage(s, r, user, text, timestamp) ==
  /\ conn[s] = "open"
  /\ CanAppend(r)
  /\ Commit(ChatMessageHandler(Server, r, user, text, timestamp, now))
  /\ lastOp' = [op |-> "chat", via |-> "push", sock |-> s, room |-> r,
                user |-> user, text |-> text, timestamp |-> timestamp,
                at |-> now, ok |-> emitted' # << >>]
  /\ resp' = NoResp
  /\ UNCHANGED <<conn, now, nextUid>>

\* ------------------------------------------------------- the fallback path
\* app.post('/api/room/join')
RestJoin(roomId, username) ==
  /\ nextUid < MaxRestJoins
  /\ CanAppend(roomId)
  /\ CanRestJoin(roomId, username)
  /\ LET bad == ~Truthy(roomId) \/ ~Truthy(username)
         rooms1 == IF RoomsHas(rooms, roomId) THEN rooms ELSE RoomsSet(rooms, roomId, NewRoom)
         userId == UserIdPool[nextUid + 1]
         newMessage == SystemMessage(JoinedText(username), now)
         room == [rooms1[roomId] EXCEPT
                    !.users = Append(EvictAllNamed(@, username),
                                     [id |-> userId, username |-> username]),
                    !.messages = Append(@, newMessage)]
     IN /\ rooms' = IF bad THEN rooms ELSE RoomsSet(rooms1, roomId, room)
        /\ nextUid' = IF bad THEN nextUid ELSE nextUid + 1
        /\ emitted' = IF bad THEN << >>
                      ELSE <<Emit("user_joined", roomId, IoTo(subs, roomId), newMessage)>>
        /\ resp' = IF bad THEN [status |-> 400]
                   ELSE [status |-> 200, success |-> TRUE, userId |-> userId,
                         room |-> [users |-> room.users, videoState |-> room.videoState,
                                   messages |-> room.messages]]
        /\ lastOp' = [op |-> "join", via |-> "rest", sock |-> "none", room |-> roomId,
                      username |-> username, ok |-> ~bad]
  /\ UNCHANGED <<subs, userRooms, conn, now>>

\* app.post('/api/room/leave')
RestLeave(roomId, userId, username) ==
  /\ CanAppend(roomId)
  /\ LET status == IF ~Truthy(roomId) THEN 400
                   ELSE IF ~RoomsHas(rooms, roomId) THEN 404
                   ELSE IF Truthy(userId) /\ UsersHas(rooms[roomId].users, userId) THEN 200
                   ELSE IF Truthy(username) /\ FirstWithName(rooms[roomId].users, username) > 0
                        THEN 200
                   ELSE 404
         room == rooms[roomId]
         byId == Truthy(userId) /\ UsersHas(room.users, userId)
         user == IF byId THEN UsersGet(room.users, userId)
                 ELSE room.users[FirstWithName(room.users, username)]
         users1 == IF byId THEN UsersDelete(room.users, userId)
                   ELSE RemoveAt(room.users, FirstWithName(room.users, username))
         newMessage == SystemMessage(LeftText(user.username), now)
         roomDeleted == Len(users1) = 0
     IN /\ rooms' = IF status # 200 THEN rooms
                    ELSE IF roomDeleted THEN RoomsDelete(rooms, roomId)
                    ELSE RoomsSet(rooms, roomId,
                           [room EXCEPT !.users = users1, !.messages = Append(@, newMessage)])
        /\ emitted' = IF status # 200 THEN << >>
                      ELSE <<Emit("user_left", roomId, IoTo(subs, roomId), newMessage)>>
        /\ resp' = IF status # 200 THEN [status |-> status]
                   ELSE [status |-> 200, success |-> TRUE, roomDeleted |-> roomDeleted]
        /\ lastOp' = [op |-> "leave", via |-> "rest", sock |-> "none", room |-> roomId,
                      username |-> username, userId |-> userId, ok |-> status = 200,
                      prev |-> Previous]
  /\ UNCHANGED <<subs, userRooms, conn, now, nextUid>>

RestVideoStateStatusNoLookup(rs, roomId, currentTime, isPlaying) ==
  IF RoomsHas(rs, roomId) /\ Truthy(roomId) /\ currentTime # None /\ isPlaying # None
  THEN 200 ELSE 400

\* the validation and the room lookup of POST /api/room/video-state
RestVideoStateStatus(rs, roomId, currentTime, isPlaying) ==
  IF ~Truthy(roomId) \/ currentTime = None \/ isPlaying = None THEN 400
  ELSE IF ~RoomsHas(rs, roomId) THEN 404
  ELSE 200

\* app.post('/api/room/video-state')
RestVideoState(roomId, currentTime, isPlaying) ==
  /\ LET status == RestVideoStateStatus(rooms, roomId, currentTime, isPlaying)
         videoState == VideoState(currentTime[1], isPlaying[1])
     IN /\ rooms' = IF status # 200 THEN rooms
                    ELSE RoomsSet(rooms, roomId, [rooms[roomId] EXCEPT !.videoState = videoState])
        /\ emitted' = IF status # 200 THEN << >>
                      ELSE <<Emit("video_state_update", roomId, IoTo(subs, roomId), videoState)>>
        /\ resp' = IF status # 200 THEN [status |-> status]
                   ELSE [status |-> 200, success |-> TRUE]
        /\ lastOp' = [op |-> "video", via |-> "rest", sock |-> "none", room |-> roomId,
                      currentTime |-> currentTime, isPlaying |-> isPlaying,
                      ok |-> status = 200]
  /\ UNCHANGED <<subs, userRooms, conn, now, nextUid>>

\* app.post('/api/room/chat')
RestChat(roomId, text, user) ==
  /\ CanAppend(roomId)
  /\ LET status == IF ~Truthy(roomId) \/ ~Truthy(text) \/ ~Truthy(user) THEN 400
                   ELSE IF ~RoomsHas(rooms, roomId) THEN 404
                   ELSE 200
         newMessage == [id |-> now, user |-> user, text |-> text, timestamp |-> now]
     IN /\ rooms' = IF status # 200 THEN rooms
                    ELSE RoomsSet(rooms, roomId,
                           [rooms[roomId] EXCEPT !.messages = Append(@, newMessage)])
        /\ emitted' = IF status # 200 THEN << >>
                      ELSE <<Emit("chat_message", roomId, IoTo(subs, roomId), newMessage)>>
        /\ resp' = IF status # 200 THEN [status |-> status]
                   ELSE [status |-> 200, success |-> TRUE, messageId |-> now]
        /\ lastOp' = [op |-> "chat", via |-> "rest", sock |-> "none", room |-> roomId,
                      user |-> user, text |-> text, timestamp |-> None,
                      at |-> now, ok |-> status = 200]
  /\ UNCHANGED <<subs, userRooms, conn, now, nextUid>>

\* ---------------------------------------- the SocketProvider of a client
\* (src/unnamed/part_002).  Client c owns the connection c.  A fetch that
\* completes is the relay's REST handler running; the function then resumes
\* in a later step, where a socket.emit is the relay's push handler running.
\* socket && socket.connected
Connected(c) == conn[c] = "open"
Idle(c) == client[c].pending = None
\* the function resumes after `await fetch(...)`: nothing was emitted
Resume(c, upd) ==
  /\ client' = [client EXCEPT ![c] = upd]
  /\ UNCHANGED <<relay, twin, player>>

\* joinRoom, to the end of `await fetch(endpoint, ...)` and `response.json()`
joinRoom(c, newRoomId, newUsername) ==
  /\ Idle(c)
  /\ RestJoin(newRoomId, newUsername)
  /\ client' = [client EXCEPT ![c] =
       [roomId |-> newRoomId, username |-> newUsername, userId |-> resp'.userId,
        pending |-> Some([op |-> "join", roomId |-> newRoomId, username |-> newUsername]),
        sent |-> <<"rest">>]]
  /\ UNCHANGED <<twin, player>>

\* joinRoom, from "Also try to join via socket if available"
joinRoomEmit(c) ==
  /\ client[c].pending # None
  /\ client[c].pending[1].op = "join"
  /\ LET req == client[c].pending[1]
     IN \/ /\ Connected(c)
           /\ JoinRoom(c, req.roomId, req.username)
           /\ client' = [client EXCEPT ![c].pending = None, ![c].sent = Append(@, "push")]
           /\ UNCHANGED <<twin, player>>
        \/ /\ ~Connected(c)
           /\ Resume(c, [client[c] EXCEPT !.pending = None])

\* joinRoom when the fetch throws: the catch block
joinRoomCatch(c, newRoomId, newUsername) ==
  /\ Idle(c)
  /\ Connected(c)
  /\ JoinRoom(c, newRoomId, newUsername)
  /\ client' = [client EXCEPT ![c] =
       [@ EXCEPT !.roomId = newRoomId, !.username = newUsername, !.sent = <<"push">>]]
  /\ UNCHANGED <<twin, player>>

\* leaveRoom, to the end of `await fetch(endpoint, ...)`
leaveRoom(c) ==
  /\ Idle(c)
  /\ Truthy(client[c].roomId)
  /\ RestLeave(client[c].roomId, client[c].userId, client[c].username)
  /\ client' = [client EXCEPT ![c].pending = Some([op |-> "leave"]), ![c].sent = <<"rest">>]
  /\ UNCHANGED <<twin, player>>

\* leaveRoom, from "Also try to leave via socket if available"
leaveRoomEmit(c) ==
  /\ client[c].pending # None
  /\ client[c].pending[1].op = "leave"
  /\ LET left == [client[c] EXCEPT !.roomId = Undefined, !.userId = Undefined,
                                   !.pending = None]
     IN \/ /\ Connected(c)
           /\ LeaveRoom(c, client[c].roomId, client[c].username)
           /\ client' = [client EXCEPT ![c] = [left EXCEPT !.sent = Append(@, "push")]]
           /\ UNCHANGED <<twin, player>>
        \/ /\ ~Connected(c)
           /\ Resume(c, left)

\* sendVideoState, to the end of `await fetch(endpoint, ...)`
sendVideoState(c, currentTime, isPlaying) ==
  /\ Idle(c)
  /\ Truthy(client[c].roomId)
  /\ RestVideoState(client[c].roomId, Some(currentTime), Some(isPlaying))
  /\ client' = [client EXCEPT
       ![c].pending = Some([op |-> "video", currentTime |-> currentTime,
                            isPlaying |-> isPlaying]),
       ![c].sent = <<"rest">>]
  /\ UNCHANGED <<twin, player>>

\* sendVideoState, from "Also try to update via socket if available"
sendVideoStateEmit(c) ==
  /\ client[c].pending # None
  /\ client[c].pending[1].op = "video"
  /\ LET req == client[c].pending[1]
     IN \/ /\ Connected(c)
           /\ VideoStateUpdate(c, client[c].roomId, req.currentTime, req.isPlaying)
           /\ client' = [client EXCEPT ![c].pending = None, ![c].sent = Append(@, "push")]
           /\ UNCHANGED <<twin, player>>
        \/ /\ ~Connected(c)
           /\ Resume(c, [client[c] EXCEPT !.pending = None])

\* sendChatMessage: the socket when it is connected, else the HTTP API
sendChatMessage(c, message) ==
  /\ Idle(c)
  /\ Truthy(client[c].roomId) /\ Truthy(client[c].username)
  /\ \/ /\ Connected(c)
        /\ ChatMessage(c, client[c].roomId, client[c].username, message, Some(now))
        /\ client' = [client EXCEPT ![c].sent = <<"push">>]
     \/ /\ ~Connected(c)
        /\ RestChat(client[c].roomId, message, client[c].username)
        /\ client' = [client EXCEPT ![c].sent = <<"rest">>]
  /\ UNCHANGED <<twin, player>>

\* ------------------------------------- one sequence, over both transports
\* Each operation of client c runs over the fallback path on the relay and
\* over the push path on the relay `twin`, at the same clock reading.
Served(st) == [st EXCEPT !.out = << >>]

BothJoin(c, r, username) ==
  /\ RestJoin(r, username)
  /\ twin' = [st |-> Served(JoinRoomHandler(twin.st, c, r, username, now)),
              username |-> [twin.username EXCEPT ![c] = username],
              userId |-> [twin.userId EXCEPT ![c] = resp'.userId]]
  /\ UNCHANGED <<client, player>>

BothLeave(c, r) ==
  /\ Truthy(twin.username[c])
  /\ RestLeave(r, twin.userId[c], twin.username[c])
  /\ twin' = [twin EXCEPT
                !.st = Served(LeaveRoomCleanup(@, c, r, twin.username[c], now))]
  /\ UNCHANGED <<client, player>>

BothVideoState(c, r, currentTime, isPlaying) ==
  /\ Truthy(twin.username[c])
  /\ RestVideoState(r, Some(currentTime), Some(isPlaying))
  /\ twin' = [twin EXCEPT
                !.st = Served(VideoStateUpdateHandler(@, c, r, currentTime, isPlaying))]
  /\ UNCHANGED <<client, player>>

BothChat(c, r, text) ==
  /\ Truthy(twin.username[c])
  /\ RestChat(r, text, twin.username[c])
  /\ twin' = [twin EXCEPT
                !.st = Served(ChatMessageHandler(@, r, twin.username[c], text, None, now))]
  /\ UNCHANGED <<client, player>>

\* ------------------------------------------- the VideoPlayer of a client
\* (src/src/components/VideoPlayer.tsx).  Positions are in milliseconds.
Positions == {500 * i : i \in 0..MaxSteps}
Abs(x) == IF x < 0 THEN 0 - x ELSE x
OutOfSyncInclusive(local, incoming) == Abs(local - incoming) >= DriftTolerance

\* timeDiff = Math.abs(videoRef.current.currentTime - currentTime); timeDiff > 1
OutOfSync(local, incoming) == Abs(local - incoming) > DriftTolerance

\* handleVideoStateUpdate, the listener of 'video_state_update'
HandleVideoStateUpdate(currentTime, isPlaying) ==
  /\ player' =
       [currentTime |-> IF OutOfSync(player.currentTime, currentTime)
                        THEN currentTime ELSE player.currentTime,
        paused |-> IF isPlaying /\ player.paused THEN FALSE
                   ELSE IF ~isPlaying /\ ~player.paused THEN TRUE
                   ELSE player.paused,
        isPlaying |-> isPlaying,
        isExternalUpdate |-> TRUE,
        seen |-> Some([currentTime |-> currentTime, isPlaying |-> isPlaying])]
  /\ UNCHANGED <<relay, client, twin>>

\* the listener of 'room_users': the snapshot's position is taken as it is
HandleRoomUsers(videoState) ==
  /\ player' = [player EXCEPT
                  !.currentTime = videoState.currentTime,
                  !.isPlaying = videoState.isPlaying,
                  !.paused = IF videoState.isPlaying THEN FALSE ELSE @,
                  !.seen = None]
  /\ UNCHANGED <<relay, client, twin>>

\* the <video> element plays on by half a second
VideoPlays ==
  /\ ~player.paused
  /\ player.currentTime + 500 \in Positions
  /\ player' = [player EXCEPT !.currentTime = @ + 500, !.seen = None]
  /\ UNCHANGED <<relay, client, twin>>

\* -------------------------------------------------------------- the inputs
OptNames == Names \cup {Undefined}
\* the userId of a leave request: an id some join response returned, or none
LeaveIds == {UserIdPool[i] : i \in 1..nextUid} \cup {Undefined}
ClientTimestamps == {None} \cup {Some(now + d) : d \in ClientSkews}

\* The requests of clients, by concern.  RS: the rooms addressed, NS: the
\* usernames of joins, HS: the username hints of leaves, US: the users of
\* chat messages, TS: the client timestamps of chat messages.
Connections ==
  \/ \E s \in Sockets : Connect(s) /\ UNCHANGED aux
  \/ \E s \in Sockets : Disconnect(s) /\ UNCHANGED aux

PushPresence(RS, NS, HS) ==
  \/ \E s \in Sockets, r \in RS, u \in NS : JoinRoom(s, r, u) /\ UNCHANGED aux
  \/ \E s \in Sockets, r \in RS, u \in HS : LeaveRoom(s, r, u) /\ UNCHANGED aux

RestPresence(RS, NS, HS) ==
  \/ \E r \in RS, u \in NS : RestJoin(r, u) /\ UNCHANGED aux
  \/ \E r \in RS, i \in LeaveIds, u \in HS : RestLeave(r, i, u) /\ UNCHANGED aux

\* PS: the positions playback updates report
Playback(RS, PS) ==
  \/ \E s \in Sockets, r \in RS, t \in PS, p \in BOOLEAN :
       VideoStateUpdate(s, r, t, p) /\ UNCHANGED aux
  \/ \E r \in RS, t \in PS, p \in BOOLEAN : RestVideoState(r, Some(t), Some(p)) /\ UNCHANGED aux

Chat(RS, US, TS) ==
  \/ \E s \in Sockets, r \in RS, u \in US, x \in Texts, ts \in TS :
       ChatMessage(s, r, u, x, ts) /\ UNCHANGED aux
  \/ \E r \in RS, u \in US, x \in Texts : RestChat(r, x, u) /\ UNCHANGED aux

\* requests with a required field missing
Malformed(RS) ==
  \/ \E s \in Sockets, r \in RS : JoinRoom(s, r, Undefined) /\ UNCHANGED aux
  \/ \E r \in RS \cup {Undefined}, u \in OptNames :
       (~Truthy(r) \/ ~Truthy(u)) /\ RestJoin(r, u) /\ UNCHANGED aux
  \/ \E i \in LeaveIds, u \in OptNames : RestLeave(Undefined, i, u) /\ UNCHANGED aux
  \/ \E r \in RS \cup {Undefined}, t \in Opt(PlayTimes), p \in Opt(BOOLEAN) :
       (~Truthy(r) \/ t = None \/ p = None) /\ RestVideoState(r, t, p) /\ UNCHANGED aux
  \/ \E r \in RS \cup {Undefined}, x \in Texts \cup {Undefined}, u \in OptNames :
       (~Truthy(r) \/ ~Truthy(x) \/ ~Truthy(u)) /\ RestChat(r, x, u) /\ UNCHANGED aux

\* One room, every handler, well-formed requests, no time passing.
Next ==
  \/ Connections
  \/ PushPresence({"r1"}, Names, {Undefined, "a"})
  \/ RestPresence({"r1"}, Names, {Undefined, "a"})
  \/ Playback({"r1"}, PlayTimes)
  \/ Chat({"r1"}, {"a"}, {None})
Spec == Init /\ [][Next]_vars

\* One room, the clock advancing, chat with client timestamps.
NextClock ==
  \/ Tick
  \/ Connections
  \/ PushPresence({"r1"}, {"a"}, {Undefined})
  \/ RestPresence({"r1"}, {"a"}, {Undefined})
  \/ Chat({"r1"}, Names, ClientTimestamps)
SpecClock == Init /\ [][NextClock]_vars

\* One room, requests with missing fields among the well-formed ones.
NextMalformed ==
  \/ Connections
  \/ PushPresence({"r1"}, {"a"}, {Undefined})
  \/ RestPresence({"r1"}, {"a"}, {Undefined})
  \/ Malformed({"r1"})
SpecMalformed == Init /\ [][NextMalformed]_vars

\* Two rooms, presence and chat.
NextRooms ==
  \/ Connections
  \/ PushPresence(Rooms, {"a"}, {Undefined})
  \/ RestPresence(Rooms, {"a"}, {Undefined})
  \/ Chat(Rooms, {"a"}, {None})
SpecRooms == Init /\ [][NextRooms]_vars

\* One room, presence and playback updates that move forward and backward.
SeekTimes == {7, 42}
NextPlayback ==
  \/ Connections
  \/ PushPresence({"r1"}, {"a"}, {Undefined})
  \/ RestPresence({"r1"}, {"a"}, {Undefined})
  \/ Playback({"r1"}, SeekTimes)
SpecPlayback == Init /\ [][NextPlayback]_vars

\* One room, every handler, requests with missing fields among the
\* well-formed ones.
NextErrors ==
  \/ Connections
  \/ PushPresence({"r1"}, {"a"}, {Undefined})
  \/ RestPresence({"r1"}, {"a"}, {Undefined})
  \/ Playback({"r1"}, PlayTimes)
  \/ Chat({"r1"}, {"a"}, {None})
  \/ Malformed({"r1"})
SpecErrors == Init /\ [][NextErrors]_vars

\* A client's VideoPlayer receiving updates and snapshots while it plays.
NextPlayer ==
  \/ \E t \in Positions, p \in BOOLEAN : HandleVideoStateUpdate(t, p)
  \/ \E t \in Positions, p \in BOOLEAN :
       HandleRoomUsers([currentTime |-> t, isPlaying |-> p])
  \/ VideoPlays
SpecPlayer == Init /\ [][NextPlayer]_vars

\* One room, every request made by the clients' SocketProviders.
NextClient ==
  \/ Connections
  \/ \E c \in Sockets, u \in Names : joinRoom(c, "r1", u)
  \/ \E c \in Sockets : joinRoomEmit(c)
  \/ \E c \in Sockets : joinRoomCatch(c, "r1", "a")
  \/ \E c \in Sockets : leaveRoom(c)
  \/ \E c \in Sockets : leaveRoomEmit(c)
  \/ \E c \in Sockets, t \in PlayTimes : sendVideoState(c, t, TRUE)
  \/ \E c \in Sockets : sendVideoStateEmit(c)
  \/ \E c \in Sockets, x \in Texts : sendChatMessage(c, x)
SpecClient == Init /\ [][NextClient]_vars

\* One room, the same operations over the fallback and over the push path.
NextBoth ==
  \/ Tick
  \/ \E c \in Sockets, u \in Names : BothJoin(c, "r1", u)
  \/ \E c \in Sockets : BothLeave(c, "r1")
  \/ \E c \in Sockets, t \in SeekTimes, p \in BOOLEAN : BothVideoState(c, "r1", t, p)
  \/ \E c \in Sockets, x \in Texts : BothChat(c, "r1", x)
SpecBoth == Init /\ [][NextBoth]_vars

\* Joins and leaves of one room on both transports, with every username and
\* username hint, and fallback playback updates.
NextPresence ==
  \/ Connections
  \/ PushPresence({"r1"}, Names, {Undefined, "a"})
  \/ RestPresence({"r1"}, Names, {Undefined, "a"})
  \/ \E p \in BOOLEAN : RestVideoState("r1", Some(42), Some(p)) /\ UNCHANGED aux
SpecPresence == Init /\ [][NextPresence]_vars

\* Connections that join and leave two rooms and disconnect, next to
\* fallback joins and leaves of the same rooms.
NextDisconnect ==
  \/ Connections
  \/ PushPresence(Rooms, {"a"}, {Undefined})
  \/ RestPresence(Rooms, {"a"}, {Undefined})
SpecDisconnect == Init /\ [][NextDisconnect]_vars

\* Every kind of request with two rooms to address: one connection next to
\* fallback clients, each joining, leaving, updating playback and chatting
\* in either room.
NextIsolation ==
  \/ Connect("s1") /\ UNCHANGED aux
  \/ Disconnect("s1") /\ UNCHANGED aux
  \/ PushPresence(Rooms, {"a"}, {Undefined})
  \/ RestPresence(Rooms, {"a"}, {Undefined})
  \/ \E s \in Sockets, r \in Rooms : VideoStateUpdate(s, r, 42, TRUE) /\ UNCHANGED aux
  \/ \E r \in Rooms : RestVideoState(r, Some(42), Some(TRUE)) /\ UNCHANGED aux
  \/ \E s \in Sockets, r \in Rooms : ChatMessage(s, r, "a", "hi", None) /\ UNCHANGED aux
  \/ \E r \in Rooms : RestChat(r, "hi", "a") /\ UNCHANGED aux
SpecIsolation == Init /\ [][NextIsolation]_vars

\* ------------------------------------------------------------- the claims
CountNamed(users, name) == Cardinality({i \in 1..Len(users) : users[i].username = name})
NumEvents(out, ev) == Cardinality({i \in 1..Len(out) : out[i].event = ev})
IsJoin(op) == op.op = "join" /\ op.ok
IsLeave(op) == op.op = "leave" /\ op.ok
IsVideo(op) == op.op = "video" /\ op.ok
IsChat(op) == op.op = "chat" /\ op.ok

\* C1: every room present in the registry has at least one participant; a
\* handler that removes a room's last participant deletes the room itself.
C1_NoEmptyRoom == \A r \in DOMAIN rooms : Len(rooms[r].users) >= 1

\* a leave (either transport), a disconnect or a re-join has just removed the
\* last participant of r1 and the room is gone
C1_Witness ==
  /\ lastOp.op \in {"leave", "disconnect"}
  /\ NumEvents(emitted, "user_left") = 1
  /\ ~RoomsHas(rooms, "r1")

\* C2: right after an accepted join the room holds exactly one entry with
\* the joiner's username, on the push path as on the fallback path.
C2_OneEntryPerUsername ==
  IsJoin(lastOp) => CountNamed(rooms[lastOp.room].users, lastOp.username) = 1

\* the identity an accepted join registers: the connection id on the push
\* path, the generated userId on the fallback path
JoinerId == IF lastOp'.via = "push" THEN lastOp'.sock ELSE resp'.userId
\* this step is an accepted join by a participant the room does not hold
C3_NewJoin == IsJoin(lastOp') /\ ~UsersHas(UsersOf(rooms, lastOp'.room), JoinerId)
\* ... whose username no participant of the room holds
C3_FreshName == CountNamed(UsersOf(rooms, lastOp'.room), lastOp'.username) = 0
\* the join keeps the N participants, adds the joiner and notifies once
C3_JoinAdds ==
  /\ UsersOf(rooms', lastOp'.room) =
       Append(UsersOf(rooms, lastOp'.room), [id |-> JoinerId, username |-> lastOp'.username])
  /\ NumEvents(emitted', "user_joined") = 1
  /\ NumEvents(emitted', "user_left") = 0
\* this step is the leave of the participant whose join ran just before:
\* by its identity, or by its username when the leave carries no identity
\* the room knows
C3_LeaveOfJoiner ==
  /\ lastOp'.op = "leave"
  /\ lastOp'.prev.op = "join"
  /\ lastOp'.room = lastOp'.prev.room
  /\ \/ lastOp'.userId = lastOp'.prev.userId
     \/ /\ ~UsersHas(UsersOf(rooms, lastOp'.room), lastOp'.userId)
        /\ lastOp'.username = lastOp'.prev.username
C3_OnlyHolder == CountNamed(UsersOf(rooms, lastOp'.room), lastOp'.prev.username) = 1
\* the leave removes the joiner, nobody else, and notifies once
C3_LeaveRemoves ==
  /\ UsersOf(rooms', lastOp'.room) =
       SelectSeq(UsersOf(rooms, lastOp'.room), LAMBDA e : e.id # lastOp'.prev.userId)
  /\ NumEvents(emitted', "user_left") = 1
  /\ NumEvents(emitted', "user_joined") = 0

C6_Original ==
  IsVideo(lastOp) =>
    \A i \in 1..Len(rooms[lastOp.room].users) :
      LET id == rooms[lastOp.room].users[i].id
      IN id # lastOp.sock => id \in emitted[1].to

\* C6 amended: an accepted playback update reaches every participant of the
\* room that joined over the push path, other than the originating connection.
C6_PushParticipantsReceive ==
  IsVideo(lastOp) =>
    \A i \in 1..Len(rooms[lastOp.room].users) :
      LET id == rooms[lastOp.room].users[i].id
      IN (id \in Sockets /\ id # lastOp.sock) => id \in emitted[1].to

\* an update was delivered to a push participant while the room also holds
\* a participant that joined over the fallback path
C6_Witness ==
  /\ IsVideo(lastOp)
  /\ \E i, j \in 1..Len(rooms[lastOp.room].users) :
       /\ rooms[lastOp.room].users[i].id \in emitted[1].to
       /\ rooms[lastOp.room].users[j].id \notin Sockets

\* C7: a connection subscribed to a room's multicast is a participant of
\* that room.
C7_SubscribersAreParticipants ==
  \A s \in Sockets : \A r \in subs[s] : UsersHas(UsersOf(rooms, r), s)

\* C9: a playback update sent on the push path goes to the subscribed
\* connections of the room except its sender; one sent on the fallback path
\* goes to every subscribed connection of the room.
C9_PlaybackOrigin ==
  IsVideo(lastOp) =>
    /\ Len(emitted) = 1
    /\ emitted[1].event = "video_state_update"
    /\ lastOp.sock \notin emitted[1].to
    /\ \A s \in Sockets : s \in emitted[1].to <=> (lastOp.room \in subs[s] /\ s # lastOp.sock)

\* a push update reached another connection and not its subscribed sender
C9_Witness ==
  /\ IsVideo(lastOp)
  /\ lastOp.via = "push"
  /\ lastOp.room \in subs[lastOp.sock]
  /\ emitted[1].to # {}

\* this step is a chat handler that runs right after an accepted post of the
\* same (user, text) to the same room
C4_SamePostAgain ==
  /\ IsChat(lastOp)
  /\ now' = now
  /\ lastOp'.op = "chat"
  /\ lastOp'.room = lastOp.room
  /\ lastOp'.user = lastOp.user
  /\ lastOp'.text = lastOp.text

\* C4: a second post of the same (user, text) that reaches the relay less
\* than 2 seconds after the first is neither stored nor broadcast, whichever
\* transport carries either post.
C4_DedupInsideWindow ==
  [][(C4_SamePostAgain /\ lastOp'.at - lastOp.at < DedupWindow)
       => (rooms' = rooms /\ emitted' = << >>)]_vars

\* C5: a second post of the same (user, text) to an existing room, 2 seconds
\* of relay time or more after the first was accepted, is stored and
\* broadcast, whatever client timestamp either post carries.
C5_AcceptedOutsideWindow ==
  [][(/\ C4_SamePostAgain
      /\ lastOp'.at - lastOp.at >= DedupWindow
      /\ RoomsHas(rooms, lastOp'.room))
       => /\ lastOp'.ok
          /\ RoomsHas(rooms', lastOp'.room)
          /\ Len(rooms'[lastOp'.room].messages) = Len(rooms[lastOp'.room].messages) + 1
          /\ NumEvents(emitted', "chat_message") = 1]_vars

\* C8: a join_room event without a username changes nothing in the registry
\* and broadcasts nothing.
C8_JoinWithoutUsernameIgnored ==
  [][(lastOp'.op = "join" /\ lastOp'.via = "push" /\ ~Truthy(lastOp'.username))
       => (rooms' = rooms /\ emitted' = << >>)]_vars

\* s takes part in a room other than r and not in r
OfAnotherRoom(s, r) ==
  /\ ~UsersHas(UsersOf(rooms, r), s)
  /\ \E q \in (DOMAIN rooms) \ {r} : UsersHas(rooms[q].users, s)

\* C10: an accepted chat message is broadcast once, with the user and text
\* submitted, to every subscribed participant of the room (its sender
\* included) and to no connection of another room.
C10_ChatBroadcast ==
  IsChat(lastOp) =>
    /\ Len(emitted) = 1
    /\ emitted[1].event = "chat_message"
    /\ emitted[1].payload.user = lastOp.user
    /\ emitted[1].payload.text = lastOp.text
    /\ \A s \in Sockets :
         (lastOp.room \in subs[s] /\ UsersHas(rooms[lastOp.room].users, s))
           => s \in emitted[1].to
    /\ \A s \in emitted[1].to : ~OfAnotherRoom(s, lastOp.room)

\* the message history of room r, empty when the room does not exist
MessagesOf(rs, r) == IF RoomsHas(rs, r) THEN rs[r].messages ELSE << >>

\* C11: a playback update or a chat message addressed to a room that is not
\* in the registry changes nothing in the registry, broadcasts nothing and,
\* on the fallback path, is answered 404.
C11_AbsentRoomNoOp ==
  [][(lastOp'.op \in {"video", "chat"} /\ ~RoomsHas(rooms, lastOp'.room))
       => /\ rooms' = rooms
          /\ emitted' = << >>
          /\ ~lastOp'.ok
          /\ lastOp'.via = "rest" => resp'.status = 404]_vars

\* a playback update was posted for a room that does not exist, and refused
C11_Witness ==
  /\ lastOp.op = "video"
  /\ lastOp.via = "rest"
  /\ ~RoomsHas(rooms, lastOp.room)
  /\ resp.status = 404

\* the pair a playback update reports
Reported(op) == [currentTime |-> op.currentTime[1], isPlaying |-> op.isPlaying[1]]

\* C12 as stated: after a playback update addressed to an existing room, on
\* either transport and from any sender, the room's playback state is the
\* reported pair.
C12_Original ==
  [][(lastOp'.op = "video" /\ RoomsHas(rooms, lastOp'.room))
       => /\ RoomsHas(rooms', lastOp'.room)
          /\ rooms'[lastOp'.room].videoState = Reported(lastOp')]_vars

\* the sender of a push update is a participant of the room
C12_FromParticipant ==
  lastOp'.via = "push" => UsersHas(UsersOf(rooms, lastOp'.room), lastOp'.sock)

\* C12 amended: the same for the fallback path and for a push update whose
\* sender is a participant of the room; a push update from a connection that
\* is not a participant leaves the playback state as it was.
C12_LastWriteWins ==
  [][(lastOp'.op = "video" /\ RoomsHas(rooms, lastOp'.room))
       => /\ RoomsHas(rooms', lastOp'.room)
          /\ lastOp'.ok <=> C12_FromParticipant
          /\ rooms'[lastOp'.room].videoState =
               IF C12_FromParticipant THEN Reported(lastOp')
               ELSE rooms[lastOp'.room].videoState]_vars

\* an update to the earlier position 7 is in effect, paused
C12_Witness ==
  /\ IsVideo(lastOp)
  /\ Reported(lastOp) = [currentTime |-> 7, isPlaying |-> FALSE]
  /\ rooms[lastOp.room].videoState = Reported(lastOp)

\* C13: an accepted join, and a leave that finds its participant in a room
\* that stays, appends exactly one system message to the room's history, with
\* the text "<username> joined the room" / "<username> left the room".
C13_SystemMessagesStored ==
  [][LET r == lastOp'.room
         before == MessagesOf(rooms, r)
         after == MessagesOf(rooms', r)
     IN /\ IsJoin(lastOp')
             => /\ Len(after) = Len(before) + 1
                /\ SubSeq(after, 1, Len(before)) = before
                /\ after[Len(after)].text = JoinedText(lastOp'.username)
        /\ (IsLeave(lastOp') /\ RoomsHas(rooms', r))
             => /\ Len(after) = Len(before) + 1
                /\ SubSeq(after, 1, Len(before)) = before
                /\ \E i \in 1..Len(rooms[r].users) :
                     after[Len(after)].text = LeftText(rooms[r].users[i].username)]_vars

\* the snapshot an accepted join returns: the room_users payload on the push
\* path, the room of the response body on the fallback path
C14_Snapshot ==
  IF lastOp'.via = "push"
  THEN (CHOOSE i \in 1..Len(emitted') : emitted'[i].event = "room_users")
  ELSE resp'.room
\* this step creates the room r: it was absent, or the re-join cleanup of the
\* push path has just deleted it
C14_Created(r) ==
  \/ ~RoomsHas(rooms, r)
  \/ /\ lastOp'.op = "join" /\ lastOp'.via = "push" /\ lastOp'.room = r
     /\ InSeq(r, userRooms[lastOp'.sock])
     /\ ~RoomsHas(LeaveRoomCleanup(Server, lastOp'.sock, r, lastOp'.username, now).rooms, r)

C15_RoomLifecycle ==
  [][/\ \A r \in Rooms :
          /\ (~RoomsHas(rooms, r) /\ RoomsHas(rooms', r))
               => (IsJoin(lastOp') /\ lastOp'.room = r)
          /\ (RoomsHas(rooms, r) /\ ~RoomsHas(rooms', r))
               => /\ lastOp'.op \in {"leave", "disconnect"}
                  /\ lastOp'.op = "leave" => lastOp'.room = r
                  /\ Len(rooms[r].users) = 1
     /\ lastOp'.op \in {"chat", "video"} => DOMAIN rooms' = DOMAIN rooms]_vars

\* the fallback leave of the last participant has deleted the room
C15_Witness ==
  /\ lastOp.op = "leave"
  /\ lastOp.via = "rest"
  /\ resp.status = 200
  /\ resp.roomDeleted
  /\ ~RoomsHas(rooms, lastOp.room)

\* C20: every join and leave notification the relay emits has the fields
\* id, user, text and timestamp, with user 'System' and the text
\* "<username> joined the room" / "<username> left the room".
C20_NotificationShape ==
  \A i \in 1..Len(emitted) :
    emitted[i].event \in {"user_joined", "user_left"}
      => /\ DOMAIN emitted[i].payload = {"id", "user", "text", "timestamp"}
         /\ emitted[i].payload.user = "System"
         /\ emitted[i].event = "user_joined"
              => emitted[i].payload.text = JoinedText(lastOp.username)
         /\ emitted[i].event = "user_left"
              => \E n \in OptNames : emitted[i].payload.text = LeftText(n)

\* a required field of the fallback request op is missing
C18_FieldMissing(op) ==
  \/ op.room = Undefined
  \/ op.op = "join" /\ op.username = Undefined
  \/ op.op = "video" /\ (op.currentTime = None \/ op.isPlaying = None)
  \/ op.op = "chat" /\ (op.text = Undefined \/ op.user = Undefined)
\* the participant the fallback leave op names is not in its room
C18_ParticipantAbsent(op) ==
  /\ op.op = "leave"
  /\ op.userId = Undefined \/ ~UsersHas(UsersOf(rooms, op.room), op.userId)
  /\ op.username = Undefined \/ CountNamed(UsersOf(rooms, op.room), op.username) = 0

\* C18: a fallback request is answered 400 exactly when a required field is
\* missing, and 404 only for a leave, playback update or chat whose room or
\* leaving participant is absent; a request answered 400 or 404 changes
\* nothing in the registry and broadcasts nothing; a join with both fields
\* is answered 200.
C18_ErrorsChangeNothing ==
  [][lastOp'.via = "rest"
       => /\ resp'.status \in {200, 400, 404}
          /\ resp'.status = 400 <=> C18_FieldMissing(lastOp')
          /\ resp'.status = 404
               => /\ lastOp'.op \in {"leave", "video", "chat"}
                  /\ ~RoomsHas(rooms, lastOp'.room) \/ C18_ParticipantAbsent(lastOp')
          /\ resp'.status \in {400, 404}
               => /\ rooms' = rooms
                  /\ subs' = subs
                  /\ userRooms' = userRooms
                  /\ emitted' = << >>
          /\ (lastOp'.op = "join" /\ ~C18_FieldMissing(lastOp')) => resp'.status = 200]_vars

\* a leave for a participant the existing room does not hold was answered 404
C18_Witness ==
  /\ lastOp.op = "leave"
  /\ lastOp.via = "rest"
  /\ resp.status = 404
  /\ RoomsHas(rooms, lastOp.room)

\* C19: handling a video_state_update sets the local position to the
\* incoming currentTime exactly when the two differ by more than 1 second
\* (1000 ms); otherwise the position stays, and in both cases the element
\* plays exactly when the incoming isPlaying says so.
C19_DriftCorrection ==
  [][player'.seen # None
       => LET incoming == player'.seen[1]
              diff == IF player.currentTime >= incoming.currentTime
                      THEN player.currentTime - incoming.currentTime
                      ELSE incoming.currentTime - player.currentTime
          IN /\ player'.currentTime =
                  IF diff > 1000 THEN incoming.currentTime ELSE player.currentTime
             /\ player'.paused = ~incoming.isPlaying
             /\ player'.isPlaying = incoming.isPlaying]_vars

\* an update exactly 1 second away from the local position was handled: the
\* position stayed and the element was paused
C19_Witness ==
  /\ player.seen # None
  /\ player.seen[1].currentTime = player.currentTime + 1000
  /\ ~player.seen[1].isPlaying
  /\ player.paused

\* C16: one user action of a client reaches the relay over one transport
\* only: no action is carried out over the fallback path and over the push
\* path as well.
C16_OneTransportPerAction ==
  \A c \in Sockets : Len(client[c].sent) <= 1

\* what two registries are compared on: per room, the set of participant
\* usernames, the playback state and the (user, text) of each stored message
C17_View(rs) ==
  [r \in DOMAIN rs |->
     [usernames |-> {rs[r].users[i].username : i \in 1..Len(rs[r].users)},
      videoState |-> rs[r].videoState,
      messages |-> [i \in 1..Len(rs[r].messages) |->
                      [user |-> rs[r].messages[i].user, text |-> rs[r].messages[i].text]]]]

\* C17: after the same sequence of join, leave, playback and chat operations,
\* run once over the fallback path and once over the push path from an empty
\* registry with the same clock readings, the two registries agree on every
\* room's existence, participant usernames, playback state and history.
C17_TransportsAgree == C17_View(rooms) = C17_View(twin.st.rooms)

\* this step is a leave that matches no participant: its identity is not in
\* the room and its username hint is absent or names nobody
C21_MatchesNobody ==
  LET op == lastOp'
      users == UsersOf(rooms, op.room)
  IN /\ op.op = "leave"
     /\ op.userId = Undefined \/ ~UsersHas(users, op.userId)
     /\ op.username = Undefined \/ CountNamed(users, op.username) = 0

\* C21: a leave that matches no participant changes no room's participants,
\* playback state or history, deletes no room and broadcasts nothing; on the
\* fallback path it is answered 404.
C21_UnmatchedLeaveNoOp ==
  [][C21_MatchesNobody
       => /\ rooms' = rooms
          /\ emitted' = << >>
          /\ lastOp'.via = "rest" => resp'.status = 404]_vars

\* a fallback leave hinting "a" was answered 404 by a room that holds
\* participants, none of them named "a"
C21_Witness ==
  /\ lastOp.op = "leave" /\ lastOp.via = "rest" /\ lastOp.username = "a"
  /\ RoomsHas(rooms, lastOp.room)
  /\ Len(rooms[lastOp.room].users) >= 1
  /\ CountNamed(rooms[lastOp.room].users, "a") = 0
  /\ resp.status = 404

\* C22: a leave whose identity (connection id on the push path, userId on the
\* fallback path) is in the room removes exactly that entry, whatever the
\* username hint names; the hint is used only when the identity is absent,
\* and then removes one entry of that name or none; no leave removes more
\* than one entry, also when several entries share the hinted username.
C22_LeaveLookupOrder ==
  [][(lastOp'.op = "leave" /\ RoomsHas(rooms, lastOp'.room))
       => LET op == lastOp'
              before == rooms[op.room].users
              after == UsersOf(rooms', op.room)
              byId == op.userId # Undefined /\ UsersHas(before, op.userId)
          IN /\ byId => after = SelectSeq(before, LAMBDA e : e.id # op.userId)
             /\ ~byId
                  => \/ after = before
                     \/ \E i \in 1..Len(before) :
                          /\ op.username # Undefined
                          /\ before[i].username = op.username
                          /\ after = [j \in 1..(Len(before) - 1) |->
                                        IF j < i THEN before[j] ELSE before[j + 1]]
             /\ Len(before) - Len(after) <= 1]_vars

\* a participant whose connection is in the room left with the hint "a" while
\* named otherwise: its own entry went and an entry named "a" is still there
C22_Witness ==
  /\ lastOp.op = "leave" /\ lastOp.via = "push" /\ lastOp.username = "a"
  /\ emitted # << >>
  /\ emitted[1].payload.user = "b"
  /\ RoomsHas(rooms, lastOp.room)
  /\ CountNamed(rooms[lastOp.room].users, "a") >= 1
  /\ ~UsersHas(rooms[lastOp.room].users, lastOp.sock)

\* C23: for every successful fallback leave, roomDeleted is true exactly
\* when the room is absent from the registry after the call, which is the
\* case exactly when the removed participant was the room's last one.
C23_RoomDeletedFlag ==
  [][(lastOp'.op = "leave" /\ lastOp'.via = "rest" /\ resp'.status = 200)
       => /\ resp'.roomDeleted <=> ~RoomsHas(rooms', lastOp'.room)
          /\ ~RoomsHas(rooms', lastOp'.room) <=> Len(UsersOf(rooms, lastOp'.room)) = 1]_vars

\* a successful fallback leave reported roomDeleted false and the room is
\* still in the registry with the participants that remain
C23_Witness ==
  /\ lastOp.op = "leave" /\ lastOp.via = "rest"
  /\ resp.status = 200
  /\ ~resp.roomDeleted
  /\ RoomsHas(rooms, lastOp.room)
  /\ Len(rooms[lastOp.room].users) >= 1

\* C24: the message history is append-only: over every single operation
\* with the room in the registry before and after it, the history before is
\* a prefix of the history after, and at most one entry was appended.
C24_HistoryAppendOnly ==
  [][\A r \in (DOMAIN rooms) \cap (DOMAIN rooms') :
       LET before == rooms[r].messages
           after == rooms'[r].messages
       IN /\ Len(after) >= Len(before)
          /\ Len(after) <= Len(before) + 1
          /\ \A i \in 1..Len(before) : after[i] = before[i]]_vars

\* C27: once the last open connection has disconnected, with no request
\* after it, the registry holds no room: every participant entry, those of
\* fallback joins included, has been removed without a leave call.
C27_NoRoomOutlivesClients ==
  (lastOp.op = "disconnect" /\ \A s \in Sockets : conn[s] # "open")
    => DOMAIN rooms = {}

\* C28: a join into a room that is in the registry leaves the room there
\* with its playback state unchanged and every stored message kept, also
\* when the joining connection is already a participant of the room and when
\* it is the only one.
C28_JoinKeepsSharedState ==
  [][(IsJoin(lastOp') /\ RoomsHas(rooms, lastOp'.room))
       => LET r == lastOp'.room
          IN /\ RoomsHas(rooms', r)
             /\ rooms'[r].videoState = rooms[r].videoState
             /\ Len(rooms'[r].messages) >= Len(rooms[r].messages)
             /\ \A i \in 1..Len(rooms[r].messages) :
                  rooms'[r].messages[i] = rooms[r].messages[i]]_vars

\* C29: a chat message is stored only when its sender is a participant of
\* the room under the username the message carries (on the push path the
\* sending connection's own entry, on the fallback path an entry of that
\* name), and never with the user 'System'.
C29_ChatAuthorship ==
  [][IsChat(lastOp')
       => LET op == lastOp'
              users == UsersOf(rooms, op.room)
          IN /\ op.user # "System"
             /\ op.via = "push"
                  => /\ UsersHas(users, op.sock)
                     /\ UsersGet(users, op.sock).username = op.user
             /\ op.via = "rest" => CountNamed(users, op.user) >= 1]_vars

\* C30: when a join of one room under one username has reached the relay
\* over both transports, one request right after the other in either order,
\* the room holds exactly one participant entry of that username.
C30_DualJoinOneEntry ==
  [][(/\ IsJoin(lastOp) /\ IsJoin(lastOp')
      /\ lastOp.via # lastOp'.via
      /\ lastOp.room = lastOp'.room
      /\ lastOp.username = lastOp'.username)
       => CountNamed(UsersOf(rooms', lastOp'.room), lastOp'.username) = 1]_vars

\* C25: after the disconnect handler of a connection has run, no room holds
\* an entry keyed by that connection, one "left" notification was emitted
\* for each room it was a participant of and none for any other, every room
\* this emptied is deleted and every other room keeps its other entries.
C25_DisconnectCleanup ==
  [][lastOp'.op = "disconnect"
       => LET s == lastOp'.sock
              Others(r) == SelectSeq(rooms[r].users, LAMBDA e : e.id # s)
              LeftIn(r) == {i \in 1..Len(emitted') :
                              emitted'[i].event = "user_left" /\ emitted'[i].room = r}
          IN /\ \A r \in DOMAIN rooms' : ~UsersHas(rooms'[r].users, s)
             /\ \A r \in Rooms :
                  Cardinality(LeftIn(r)) = IF UsersHas(UsersOf(rooms, r), s) THEN 1 ELSE 0
             /\ \A r \in DOMAIN rooms :
                  IF Others(r) = << >>
                  THEN ~RoomsHas(rooms', r)
                  ELSE RoomsHas(rooms', r) /\ rooms'[r].users = Others(r)]_vars

\* a connection that was a participant of both rooms has disconnected: two
\* notifications went out, the room it was alone in is gone and the other
\* room keeps another client's entry
C25_Witness ==
  /\ lastOp.op = "disconnect"
  /\ NumEvents(emitted, "user_left") = 2
  /\ Cardinality(DOMAIN rooms) = 1
  /\ \A r \in DOMAIN rooms :
       /\ Len(rooms[r].users) >= 1
       /\ ~UsersHas(rooms[r].users, lastOp.sock)

\* C26: a join, leave, playback update or chat message addressed to a room
\* leaves every other room as it was: no other room is created or deleted,
\* and the participants, playback state and history of each stay unchanged.
C26_RoomIsolation ==
  [][lastOp'.op \in {"join", "leave", "video", "chat"}
       => \A q \in Rooms \ {lastOp'.room} :
            /\ RoomsHas(rooms', q) <=> RoomsHas(rooms, q)
            /\ RoomsHas(rooms, q) => rooms'[q] = rooms[q]]_vars

\* a playback update was accepted in one room while another room is in the
\* registry, and the other room's playback state is still the initial one
C26_Witness ==
  /\ IsVideo(lastOp)
  /\ RoomsHas(rooms, lastOp.room)
  /\ rooms[lastOp.room].videoState.currentTime = 42
  /\ \E q \in (DOMAIN rooms) \ {lastOp.room} :
       /\ rooms[q].videoState.currentTime = 0
       /\ Len(rooms[q].users) >= 1

=============================================================================
